---- MODULE Spec2Model ----
(***************************************************************************)
(* A model of src/src/pint/observatory/clock_file.py: clock correction     *)
(* series (ClockFile), their evaluation by linear interpolation, the merge *)
(* of several series into their sum, and the TEMPO / TEMPO2 parsers behind *)
(* ClockFile.read.                                                         *)
(*                                                                         *)
(* Numbers.  MJDs of merge/evaluate inputs are small integers.  A          *)
(* correction is an exact rational, held as an integer count of 1/Scale    *)
(* units, where Scale is a common multiple of every difference of two      *)
(* MJDs: np.interp's slope*(x - xp[j]) + fp[j] is then computed without    *)
(* remainder.  Floating-point rounding and the us <-> s unit conversions   *)
(* of astropy are not modelled.                                            *)
(***************************************************************************)
EXTENDS Integers, Sequences, FiniteSets, TLC

VARIABLES
    pc,          \* position of the call being modelled
    clocks,      \* merge: the list of input ClockFile objects
    trim,        \* merge: the trim keyword
    merged,      \* merge: what the call produced (a ClockFile or an exception)
    self,        \* evaluate: the ClockFile evaluated
    t,           \* evaluate: the query times
    limits,      \* evaluate: the limits keyword
    ret,         \* evaluate: what the call produced
    format,      \* read: the format keyword
    obscode,     \* read: TempoClockFile's obscode keyword (a str or None)
    bogus_last_correction,  \* read: the parsers' bogus_last_correction keyword
    lines,       \* read: the lines of the file taken so far, as indices into the
                 \*       table of lines of the format
    seen_header, \* TempoClockFile.__init__: seen_header
    mjds,        \* the parsers' list of MJDs (mjds in TempoClockFile, mjd in Tempo2ClockFile)
    clkcorrs,    \* the parsers' list of corrections (clkcorrs, clk)
    comments,    \* self.comments
    leading_comment,  \* self.leading_comment
    r,           \* read: the object the parser returned, or None
    raised       \* read: the exception that left read, or None

mergeVars == <<clocks, trim, merged>>
evalVars == <<self, t, limits, ret>>
optVars == <<format, obscode, bogus_last_correction>>
parseVars == <<lines, seen_header, mjds, clkcorrs, comments, leading_comment>>
readVars == <<optVars, parseVars, r, raised>>
vars == <<pc, mergeVars, evalVars, readVars>>

(***************************************************************************)
(* Bounds of the model.                                                    *)
(***************************************************************************)
\* Largest MJD of a sample of an input series (MJDs are 1..MaxT).
MaxT == 3
\* Largest number of samples in all the inputs of one merge together, and in
\* the series of one evaluate.
MaxSamples == 4
\* Largest number of query times in one evaluate call.
MaxQuery == 2
\* Largest number of lines read from one file.
MaxLines == 5

\* Corrections of input samples, in whole units.  merge and evaluate are
\* linear in the corrections, so 0/1-valued samples already separate any two
\* different linear combinations of them.
Corrections == {0, 1}

RECURSIVE Factorial(_)
Factorial(n) == IF n <= 1 THEN 1 ELSE n * Factorial(n - 1)
\* One whole unit of correction, as a count of 1/Scale units: the least common
\* multiple of 1..MaxT.
Scale == CHOOSE m \in 1..Factorial(MaxT) :
            /\ \A k \in 1..MaxT : m % k = 0
            /\ \A n \in 1..(m - 1) : \E k \in 1..MaxT : n % k # 0

None == "None"

(***************************************************************************)
(* Series: the _time / _clock arrays of a ClockFile.                       *)
(***************************************************************************)
NonDecreasing(mjd) == \A i \in 1..(Len(mjd) - 1) : mjd[i] <= mjd[i + 1]
AtMostTwice(mjd) == \A i \in 1..(Len(mjd) - 2) : mjd[i] # mjd[i + 2]

TimesOfLen(n) == {m \in [1..n -> 1..MaxT] : NonDecreasing(m) /\ AtMostTwice(m)}
SeriesOfLen(n) ==
    {[time |-> m, clock |-> [i \in 1..n |-> c[i] * Scale]] :
        m \in TimesOfLen(n), c \in [1..n -> Corrections]}
\* Non-empty series with at most n samples.
SeriesUpTo(n) == UNION {SeriesOfLen(k) : k \in 1..n}

RECURSIVE ClockLists(_)
\* Non-empty lists of non-empty series holding at most n samples together.
ClockLists(n) ==
    IF n <= 0 THEN {}
    ELSE UNION {{<<c>> : c \in SeriesOfLen(k)}
                \cup {<<c>> \o rest : c \in SeriesOfLen(k), rest \in ClockLists(n - k)}
                : k \in 1..n}

(***************************************************************************)
(* numpy helpers, with numpy's 0-based results kept as they are.           *)
(***************************************************************************)
\* np.searchsorted(a, v, side="left"): number of elements < v.
searchsorted_left(a, v) == Cardinality({i \in 1..Len(a) : a[i] < v})
\* np.searchsorted(a, v, side="right"): number of elements <= v.
searchsorted_right(a, v) == Cardinality({i \in 1..Len(a) : a[i] <= v})

\* The k-th smallest element of a set of numbers.
Nth(S, k) == CHOOSE x \in S : Cardinality({y \in S : y < x}) = k - 1
\* The elements of a set of numbers in increasing order.
SortedSeq(S) == [k \in 1..Cardinality(S) |-> Nth(S, k)]
\* np.unique(np.concatenate(all_mjds))
np_unique(all_mjds) ==
    SortedSeq(UNION {{all_mjds[k][i] : i \in 1..Len(all_mjds[k])} : k \in 1..Len(all_mjds)})

RECURSIVE np_repeat(_, _)
np_repeat(a, reps) ==
    IF a = <<>> THEN <<>>
    ELSE [i \in 1..reps[1] |-> a[1]] \o np_repeat(Tail(a), Tail(reps))

\* np.interp(x, xp, fp) for one x: j is the last index with xp[j] <= x
\* (binary_search_with_guess), so at a repeated xp the later sample is used.
np_interp(x, xp, fp) ==
    LET n == Len(xp)
        j == Cardinality({i \in 1..n : xp[i] <= x})
    IN IF j = 0 THEN fp[1]
       ELSE IF j = n THEN fp[n]
       ELSE IF xp[j] = x THEN fp[j]
       ELSE fp[j] + ((fp[j + 1] - fp[j]) * (x - xp[j])) \div (xp[j + 1] - xp[j])

(***************************************************************************)
(* ClockFile.evaluate                                                      *)
(***************************************************************************)
\* The documented values of limits, and one that is neither.
Limits == {"warn", "error", "ignore"}

\* A slip of the range test: np.all in place of np.any.
out_of_range_all(c, ts) ==
    \/ \A i \in 1..Len(ts) : ts[i] < c.time[1]
    \/ \A i \in 1..Len(ts) : ts[i] > c.time[Len(c.time)]

\* np.any(t < self.time[0]) or np.any(t > self.time[-1])
out_of_range(c, ts) ==
    \/ \E i \in 1..Len(ts) : ts[i] < c.time[1]
    \/ \E i \in 1..Len(ts) : ts[i] > c.time[Len(c.time)]

\* self.evaluate(t, limits): the exception raised or the corrections
\* returned, the warnings logged, and whether the range test was reached.
evaluate(c, ts, lim) ==
    LET zeros == [i \in 1..Len(ts) |-> 0]
        interp == [i \in 1..Len(ts) |-> np_interp(ts[i], c.time, c.clock)]
    IN IF Len(c.time) = 0 /\ lim = "warn"
       THEN [raised |-> None, value |-> zeros, warned |-> {"empty"}, range_checked |-> FALSE]
       ELSE IF Len(c.time) = 0 /\ lim = "error"
       THEN [raised |-> "RuntimeError: No data points", value |-> <<>>,
             warned |-> {}, range_checked |-> FALSE]
       ELSE IF Len(c.time) = 0
       \* any other limits falls through to self.time[0] of an empty array
       THEN [raised |-> "IndexError", value |-> <<>>, warned |-> {}, range_checked |-> TRUE]
       ELSE IF out_of_range(c, ts) /\ lim = "error"
       THEN [raised |-> "RuntimeError: Data points out of range", value |-> <<>>,
             warned |-> {}, range_checked |-> TRUE]
       ELSE [raised |-> None, value |-> interp,
             warned |-> IF out_of_range(c, ts) /\ lim = "warn" THEN {"range"} ELSE {},
             range_checked |-> TRUE]

(***************************************************************************)
(* ClockFile.merge                                                         *)
(***************************************************************************)
\* mjds[:-1][np.diff(mjds) == 0]: the MJDs that two consecutive samples share.
discontinuities(mjd) == {mjd[i] : i \in {k \in 1..(Len(mjd) - 1) : mjd[k] = mjd[k + 1]}}

\* The breakpoints without np.repeat: every distinct MJD once.
merge_mjds_unique(clks) == np_unique([k \in 1..Len(clks) |-> clks[k].time])

\* The merged breakpoints: every distinct MJD once, twice if some input repeats it.
merge_mjds(clks) ==
    LET all_mjds == [k \in 1..Len(clks) |-> clks[k].time]
        all_discontinuities == UNION {discontinuities(all_mjds[k]) : k \in 1..Len(clks)}
        u == np_unique(all_mjds)
        reps == [i \in 1..Len(u) |-> IF u[i] \in all_discontinuities THEN 2 ELSE 1]
    IN np_repeat(u, reps)

\* z = np.diff(c._time.mjd) == 0, as a predicate on the 1-based index i of the
\* first sample of a pair.
z(c, i) == i >= 1 /\ i < Len(c.time) /\ c.time[i] = c.time[i + 1]
\* ixl: left ends of runs of equal values; ixr: right ends.
ixl(c) == SortedSeq({i \in 1..(Len(c.time) - 1) : z(c, i) /\ ~z(c, i - 1)})
ixr(c) == SortedSeq({i \in 1..(Len(c.time) - 1) : z(c, i) /\ ~z(c, i + 1)})

RECURSIVE put(_, _, _)
put(arr, idx, vals) ==
    IF idx = <<>> THEN arr
    ELSE put([arr EXCEPT ![idx[1] + 1] = vals[1]], Tail(idx), Tail(vals))
\* arr[idx] = vals with 0-based index arrays: numpy raises IndexError when an
\* index is not below len(arr).
fancy_assign(arr, idx, vals) ==
    IF \E k \in 1..Len(idx) : idx[k] >= Len(arr)
    THEN [raised |-> "IndexError", arr |-> <<>>]
    ELSE [raised |-> None, arr |-> put(arr, idx, vals)]

\* Where the right-hand value of a discontinuity at MJD m is written.
right_index(brk, m) == searchsorted_right(brk, m)
\* Where the left-hand value is written.
left_index(brk, m) == searchsorted_left(brk, m)

\* One pass of the loop over clocks: the contribution of clock c at the
\* breakpoints brk (the code's mjds after np.repeat), or the IndexError of an
\* assignment.
this_corr(c, brk) ==
    LET everywhere == evaluate(c, brk, "warn").value
        l == ixl(c)
        rr == ixr(c)
        left_fixed == fancy_assign(everywhere,
                                   [k \in 1..Len(l) |-> left_index(brk, c.time[l[k]])],
                                   [k \in 1..Len(l) |-> c.clock[l[k]]])
    IN IF left_fixed.raised # None THEN left_fixed
       ELSE fancy_assign(left_fixed.arr,
                         [k \in 1..Len(rr) |-> right_index(brk, c.time[rr[k]])],
                         [k \in 1..Len(rr) |-> c.clock[rr[k] + 1]])

RECURSIVE SumAt(_, _, _)
SumAt(parts, k, i) == IF k = 0 THEN 0 ELSE parts[k][i] + SumAt(parts, k - 1, i)

Max(S) == CHOOSE x \in S : \A y \in S : y <= x
Min(S) == CHOOSE x \in S : \A y \in S : x <= y

\* times[il:ir]
slice(a, il, ir) == SubSeq(a, il + 1, ir)

\* The new series kept when trimming.
trimmed(clks, brk, corr) ==
    LET b == Max({clks[k].time[1] : k \in 1..Len(clks)})
        e == Min({clks[k].time[Len(clks[k].time)] : k \in 1..Len(clks)})
        il == searchsorted_left(brk, b)
        ir == searchsorted_right(brk, e)
    IN [time |-> slice(brk, il, ir), clock |-> slice(corr, il, ir)]

\* ConstructedClockFile(mjd, clock)
ConstructedClockFile(mjd, clock, parts, brk) ==
    IF Len(mjd) # Len(clock)
    THEN [raised |-> "ValueError", time |-> <<>>, clock |-> <<>>, parts |-> parts, mjds |-> brk]
    ELSE [raised |-> None, time |-> mjd, clock |-> clock, parts |-> parts, mjds |-> brk]

\* merge(clocks, trim=tr).  Besides the new series the result keeps two
\* locals of the call that claims speak about: mjds, the breakpoints before
\* trimming, and parts, each clock's this_corr at those breakpoints.
merge(clks, tr) ==
    LET brk == merge_mjds(clks)
        each == [k \in 1..Len(clks) |-> this_corr(clks[k], brk)]
        parts == [k \in 1..Len(clks) |-> each[k].arr]
        corr == [i \in 1..Len(brk) |-> SumAt(parts, Len(clks), i)]
    IN IF \E k \in 1..Len(clks) : each[k].raised # None
       THEN [raised |-> "IndexError", time |-> <<>>, clock |-> <<>>,
             parts |-> <<>>, mjds |-> brk]
       ELSE IF tr
       THEN LET s == trimmed(clks, brk, corr)
            IN ConstructedClockFile(s.time, s.clock, parts, brk)
       ELSE ConstructedClockFile(brk, corr, parts, brk)

(***************************************************************************)
(* Specification of merge: some inputs, then one call.                     *)
(***************************************************************************)
EmptySeries == [time |-> <<>>, clock |-> <<>>]

EvalIdle == self = EmptySeries /\ t = <<>> /\ limits = None /\ ret = None
MergeIdle == clocks = <<>> /\ trim = None /\ merged = None
ReadIdle ==
    /\ format = None /\ obscode = <<None>> /\ bogus_last_correction = FALSE
    /\ lines = <<>> /\ seen_header = 0 /\ mjds = <<>> /\ clkcorrs = <<>>
    /\ comments = <<>> /\ leading_comment = <<None>>
    /\ r = None /\ raised = None

InitMerge ==
    /\ pc = "merge"
    /\ clocks \in ClockLists(MaxSamples)
    /\ trim = None
    /\ merged = None
    /\ EvalIdle
    /\ ReadIdle

CallMerge ==
    /\ pc = "merge"
    /\ \E tr \in BOOLEAN :
          /\ trim' = tr
          /\ merged' = merge(clocks, tr)
    /\ pc' = "merged"
    /\ UNCHANGED <<clocks, evalVars, readVars>>

NextMerge == CallMerge

SpecMerge == InitMerge /\ [][NextMerge]_vars

\* Inputs of merge whose MJDs are only known to be non-decreasing: an MJD may
\* recur at any number of consecutive samples.  Their corrections, which play
\* no part in where the breakpoints fall, alternate between 1 and 0.
SortedTimesOfLen(n) == {m \in [1..n -> 1..MaxT] : NonDecreasing(m)}
SortedSeriesOfLen(n) ==
    {[time |-> m, clock |-> [i \in 1..n |-> (i % 2) * Scale]] : m \in SortedTimesOfLen(n)}
RECURSIVE SortedClockLists(_)
SortedClockLists(n) ==
    IF n <= 0 THEN {}
    ELSE UNION {{<<c>> : c \in SortedSeriesOfLen(k)}
                \cup {<<c>> \o rest : c \in SortedSeriesOfLen(k),
                                      rest \in SortedClockLists(n - k)}
                : k \in 1..n}

InitMergeSorted ==
    /\ pc = "merge"
    /\ clocks \in SortedClockLists(MaxSamples)
    /\ trim = None
    /\ merged = None
    /\ EvalIdle
    /\ ReadIdle

SpecMergeSorted == InitMergeSorted /\ [][NextMerge]_vars

(***************************************************************************)
(* Specification of evaluate: a series, then one call.                     *)
(***************************************************************************)
QueryTimes == UNION {[1..n -> 0..(MaxT + 1)] : n \in 1..MaxQuery}

InitEval ==
    /\ pc = "evaluate"
    /\ self \in SeriesUpTo(MaxSamples) \cup {EmptySeries}
    /\ t = <<>>
    /\ limits = None
    /\ ret = None
    /\ MergeIdle
    /\ ReadIdle

CallEvaluate ==
    /\ pc = "evaluate"
    /\ \E ts \in QueryTimes, lim \in Limits :
          /\ t' = ts
          /\ limits' = lim
          /\ ret' = evaluate(self, ts, lim)
    /\ pc' = "evaluated"
    /\ UNCHANGED <<mergeVars, self, readVars>>

NextEval == CallEvaluate

SpecEval == InitEval /\ [][NextEval]_vars

(***************************************************************************)
(* Text.  A Python str is a sequence of one-character strings; None, where *)
(* a str may also be None, is the sequence NoneStr.  A number that may be  *)
(* None is <<v>> or <<>>.  Numbers read from text are exact decimals held  *)
(* as a count of thousandths.                                              *)
(***************************************************************************)
NoneStr == <<None>>
Nothing == <<>>
Some(v) == <<v>>
Milli(n) == n * 1000

Digits == <<"0","1","2","3","4","5","6","7","8","9">>
LowerCase == <<"a","b","c","d","e","f","g","h","i","j","k","l","m","n","o","p","q","r","s","t","u","v","w","x","y","z">>
UpperCase == <<"A","B","C","D","E","F","G","H","I","J","K","L","M","N","O","P","Q","R","S","T","U","V","W","X","Y","Z">>
IsDigit(ch) == \E i \in 1..10 : Digits[i] = ch
DigitVal(ch) == (CHOOSE i \in 1..10 : Digits[i] = ch) - 1
\* str.isspace for the characters of the model
IsSpace(ch) == ch \in {" ", "\t", "\n", "\r"}
\* str.upper / str.lower of one character
char_upper(ch) == IF \E i \in 1..26 : LowerCase[i] = ch
                  THEN UpperCase[CHOOSE i \in 1..26 : LowerCase[i] = ch] ELSE ch
char_lower(ch) == IF \E i \in 1..26 : UpperCase[i] = ch
                  THEN LowerCase[CHOOSE i \in 1..26 : UpperCase[i] = ch] ELSE ch
upper(s) == [i \in 1..Len(s) |-> char_upper(s[i])]
lower(s) == [i \in 1..Len(s) |-> char_lower(s[i])]

\* s[a:b] and s[a:] with 0 <= a <= b
py_slice(s, a, b) == SubSeq(s, a + 1, IF b < Len(s) THEN b ELSE Len(s))
py_from(s, a) == SubSeq(s, a + 1, Len(s))
startswith(s, prefix) == Len(s) >= Len(prefix) /\ SubSeq(s, 1, Len(prefix)) = prefix

Least(S) == CHOOSE x \in S : \A y \in S : x <= y
Greatest(S) == CHOOSE x \in S : \A y \in S : y <= x
rstrip(s) == SubSeq(s, 1, Greatest({0} \cup {i \in 1..Len(s) : ~IsSpace(s[i])}))
lstrip(s) == SubSeq(s, Least({Len(s) + 1} \cup {i \in 1..Len(s) : ~IsSpace(s[i])}), Len(s))
strip(s) == lstrip(rstrip(s))

\* The index after the run of non-blank characters that starts at i.
WordEnd(s, i) == Least({Len(s) + 1} \cup {j \in i..Len(s) : IsSpace(s[j])})
\* str.split(): the words between runs of white space
split(s) ==
    LET starts == {i \in 1..Len(s) : ~IsSpace(s[i]) /\ (i = 1 \/ IsSpace(s[i - 1]))}
    IN [k \in 1..Cardinality(starts) |->
            SubSeq(s, Nth(starts, k), WordEnd(s, Nth(starts, k)) - 1)]

\* str.split(sep) for a one-character sep
split_on(s, sep) ==
    LET at == {i \in 1..Len(s) : s[i] = sep}
        from(k) == IF k = 1 THEN 1 ELSE Nth(at, k - 1) + 1
        to(k) == IF k = Cardinality(at) + 1 THEN Len(s) ELSE Nth(at, k) - 1
    IN [k \in 1..(Cardinality(at) + 1) |-> SubSeq(s, from(k), to(k))]

\* The index after the run of digits that starts at i.
DigitsEnd(s, i) ==
    IF i > Len(s) THEN i
    ELSE Least({Len(s) + 1} \cup {j \in i..Len(s) : ~IsDigit(s[j])})

\* The index after the longest text at i of the form
\*   [-+]?(\d+(\.\d*)?|\.\d+)([expo][-+]?\d+)?
\* or 0 when there is none.
FloatEnd(s, i, expo) ==
    LET a == IF i <= Len(s) /\ s[i] \in {"+", "-"} THEN i + 1 ELSE i
        b == DigitsEnd(s, a)
        m == IF b > a
             THEN IF b <= Len(s) /\ s[b] = "." THEN DigitsEnd(s, b + 1) ELSE b
             ELSE IF a <= Len(s) /\ s[a] = "." /\ DigitsEnd(s, a + 1) > a + 1
             THEN DigitsEnd(s, a + 1)
             ELSE 0
        c == IF m + 1 <= Len(s) /\ s[m + 1] \in {"+", "-"} THEN m + 2 ELSE m + 1
    IN IF m # 0 /\ m <= Len(s) /\ s[m] \in expo /\ DigitsEnd(s, c) > c
       THEN DigitsEnd(s, c)
       ELSE m

\* The number written by the first n digits of d.
RECURSIVE NatUpTo(_, _)
NatUpTo(d, n) == IF n = 0 THEN 0 ELSE NatUpTo(d, n - 1) * 10 + DigitVal(d[n])
NatOf(d) == NatUpTo(d, Len(d))
RECURSIVE Pow10(_)
Pow10(n) == IF n <= 0 THEN 1 ELSE 10 * Pow10(n - 1)

\* The value, in thousandths, of a decimal literal with e/E exponent.
DecimalValue(s) ==
    LET neg == s[1] = "-"
        a == IF s[1] \in {"+", "-"} THEN 2 ELSE 1
        b == DigitsEnd(s, a)
        fe == IF b <= Len(s) /\ s[b] = "." THEN DigitsEnd(s, b + 1) ELSE b
        frac == IF fe > b THEN SubSeq(s, b + 1, fe - 1) ELSE <<>>
        mant == NatOf(SubSeq(s, a, b - 1) \o frac)
        eneg == fe + 1 <= Len(s) /\ s[fe + 1] = "-"
        es == IF fe + 1 <= Len(s) /\ s[fe + 1] \in {"+", "-"} THEN fe + 2 ELSE fe + 1
        ex == IF fe <= Len(s) THEN NatOf(SubSeq(s, es, Len(s))) ELSE 0
        shift == 3 - Len(frac) + (IF eneg THEN 0 - ex ELSE ex)
        mag == IF shift >= 0 THEN mant * Pow10(shift) ELSE mant \div Pow10(0 - shift)
    IN IF neg THEN 0 - mag ELSE mag

\* float(s): the decimal literals Python accepts, white space around them
\* stripped; any other text of the model's lines is a ValueError (None).
\* Python's inf, nan and digit-grouping underscores do not occur in them.
py_float(s) ==
    LET w == strip(s)
    IN IF w # <<>> /\ FloatEnd(w, 1, {"e", "E"}) = Len(w) + 1
       THEN Some(DecimalValue(w))
       ELSE Nothing

(***************************************************************************)
(* The files of the model.                                                 *)
(***************************************************************************)
\* The lines a TEMPO file of the model is made of.
\* header template line 1 as written by write_tempo_clock_file
L_H1 ==
    <<" "," "," ","M","J","D"," "," "," "," "," "," "," ","E","E","C","O","-","R","E","F",
      " "," "," "," ","N","I","S","T","-","R","E","F"," ","N","S"," "," "," "," "," "," ",
      "D","A","T","E"," "," "," "," ","C","O","M","M","E","N","T","S","\n">>
\* header template line 2
L_H2 ==
    <<"=","=","=","=","=","=","=","=","="," "," "," "," ","=","=","=","=","=","=","=","=",
      " "," "," "," ","=","=","=","=","=","=","=","="," ","=","="," "," "," "," ","=","=",
      "=","=","=","=","=","="," "," ","=","=","=","=","=","=","=","=","\n">>
\* header line 1 in lower case with single spaces
L_h1 ==
    <<"m","j","d"," ","e","e","c","o","-","r","e","f"," ","n","i","s","t","-","r","e","f",
      " ","n","s"," ","d","a","t","e"," ","c","o","m","m","e","n","t","s","\n">>
\* a comment line
L_note ==
    <<"#"," ","n","o","t","e","\n">>
\* a sample of site a with a trailing comment
L_a ==
    <<" ","5","0","0","0","0",".","0","0"," "," "," "," "," "," "," ","0",".","0","0","0",
      " "," "," "," "," "," "," ","1",".","5","0","0"," ","a"," "," "," "," ","0","4","-",
      "O","c","t","-","9","5"," "," ","o","k","\n">>
\* an earlier sample of site B, first field above 800
L_B ==
    <<" ","4","9","9","9","9",".","0","0"," "," "," "," "," ","9","0","0",".","0","0","0",
      " "," "," "," "," "," "," ","0",".","0","0","0"," ","B"," "," "," "," ","0","4","-",
      "O","c","t","-","9","5","\n">>
\* a filler sample with MJD 0 of site B
L_zero ==
    <<" "," "," "," "," ","0",".","0","0"," "," "," "," "," "," "," ","0",".","0","0","0",
      " "," "," "," "," "," "," ","0",".","0","0","0"," ","B"," "," "," "," ","0","4","-",
      "O","c","t","-","9","5","\n">>
\* a short line: no MJD, no site code
L_junk ==
    <<"j","u","n","k","\n">>
\* both correction fields unparsable, site a
L_nocorr ==
    <<" ","5","0","0","0","1",".","0","0"," "," "," "," "," "," "," "," "," "," ","-","-",
      " "," "," "," "," "," "," "," "," "," ","-","-"," ","a"," "," "," "," ","0","4","-",
      "O","c","t","-","9","5","\n">>
\* first correction field blank, site a
L_onecorr ==
    <<" ","5","0","0","0","2",".","0","0"," "," "," "," "," "," "," "," "," "," "," "," ",
      " "," "," "," "," "," "," ","2",".","2","5","0"," ","a"," "," "," "," ","0","4","-",
      "O","c","t","-","9","5","\n">>
\* MJD outside the accepted range, site b
L_early ==
    <<" "," ","1","2","3","4",".","0","0"," "," "," "," "," "," "," ","0",".","0","0","0",
      " "," "," "," "," "," "," ","1",".","0","0","0"," ","b"," "," "," "," ","0","4","-",
      "O","c","t","-","9","5","\n">>
\* an INCLUDE directive
L_include ==
    <<"I","N","C","L","U","D","E"," ","o","t","h","e","r",".","d","a","t","\n">>
TempoLines == <<L_H1, L_H2, L_h1, L_note, L_a, L_B, L_zero, L_junk, L_nocorr, L_onecorr, L_early, L_include>>
\* The lines a TEMPO2 file of the model is made of.
\* a header line
M_hdr ==
    <<"#"," ","U","T","C","(","A","O",")"," ","U","T","C","(","G","P","S",")","\n">>
\* two time scales without the #
M_nohash ==
    <<"U","T","C","(","A","O",")"," ","U","T","C","(","G","P","S",")","\n">>
\* a sample
M_a ==
    <<"5","0","0","0","0",".","0"," ","1",".","5","\n">>
\* an earlier sample with trailing text
M_b ==
    <<"4","9","9","9","9"," ","2",".","0"," ","o","l","d","\n">>
\* a filler sample with MJD 0
M_zero ==
    <<"0"," ","0",".","5","\n">>
\* a line that is no pair of numbers
M_junk ==
    <<"s","e","e"," ","n","o","t","e","s","\n">>
\* a Fortran exponent in the correction
M_dexp ==
    <<"5","0","0","0","1"," ","2",".","5","d","0","\n">>
Tempo2Lines == <<M_hdr, M_nohash, M_a, M_b, M_zero, M_junk, M_dexp>>
\* tempo_standard_header
tempo_standard_header ==
    <<" "," "," ","M","J","D"," "," "," "," "," "," "," ","E","E","C","O","-","R","E","F",
      " "," "," "," ","N","I","S","T","-","R","E","F"," ","N","S"," "," "," "," "," "," ",
      "D","A","T","E"," "," "," "," ","C","O","M","M","E","N","T","S","\n","=","=","=","=",
      "=","=","=","=","="," "," "," "," ","=","=","=","=","=","=","=","="," "," "," "," ",
      "=","=","=","=","=","=","=","="," ","=","="," "," "," "," ","=","=","=","=","=","=",
      "=","="," "," ","=","=","=","=","=","=","=","=","\n">>

(***************************************************************************)
(* TempoClockFile.__init__                                                 *)
(***************************************************************************)
\* float(l[0:9]) with the range test, None on ValueError
tempo_mjd(l) ==
    LET v == py_float(py_slice(l, 0, 9))
    IN IF v = Nothing THEN Nothing
       ELSE IF (v[1] < Milli(39000) /\ v[1] # 0) \/ v[1] > Milli(100000) THEN Nothing
       ELSE v
tempo_clkcorr1(l) == py_float(py_slice(l, 9, 21))
tempo_clkcorr2(l) == py_float(py_slice(l, 21, 33))
\* l[34].lower(), None on IndexError
tempo_csite(l) == IF Len(l) > 34 THEN <<char_lower(l[35])>> ELSE NoneStr

\* [w.upper() for w in l.split()] == tempo_standard_header.split("\n")[seen].split()
header_matches(l, seen) ==
    LET words == split(l)
    IN [i \in 1..Len(words) |-> upper(words[i])]
       = split(split_on(tempo_standard_header, "\n")[seen + 1])

\* (obscode is not None) and (obscode != csite): the filter compared as given
site_differs_cased(code, l) == code # NoneStr /\ code # tempo_csite(l)

\* (obscode is not None) and (obscode.lower() != csite)
site_differs(code, l) == code # NoneStr /\ lower(code) # tempo_csite(l)

\* mjd is None, or both clkcorrs are None
demoted(l) ==
    \/ tempo_mjd(l) = Nothing
    \/ tempo_clkcorr1(l) = Nothing /\ tempo_clkcorr2(l) = Nothing

\* clkcorr2 - clkcorr1 after the defaults and tempo's hard-coded adjustment
tempo_clkcorr(l) ==
    LET c1 == IF tempo_clkcorr1(l) = Nothing THEN 0 ELSE tempo_clkcorr1(l)[1]
        c2 == IF tempo_clkcorr2(l) = Nothing THEN 0 ELSE tempo_clkcorr2(l)[1]
        adjusted == IF c1 > Milli(800) THEN c1 - 818800 ELSE c1
    IN c2 - adjusted

\* add_comment(s) of TempoClockFile.__init__: the new comments and leading_comment
tempo_add_comment(cs, lead, s) ==
    IF cs # <<>>
    THEN [comments |-> [cs EXCEPT ![Len(cs)] =
                            IF @ = NoneStr THEN rstrip(s) ELSE @ \o <<"\n">> \o rstrip(s)],
          leading_comment |-> lead]
    ELSE IF lead = NoneStr
    THEN [comments |-> cs, leading_comment |-> rstrip(s)]
    ELSE [comments |-> cs, leading_comment |-> lead \o <<"\n">> \o rstrip(s)]

\* an if for the while: only the first sample with MJD 0 removed
zap_first_zero(m, c) ==
    IF Len(m) > 0 /\ m[1] = 0 THEN [time |-> Tail(m), clock |-> Tail(c)]
    ELSE [time |-> m, clock |-> c]

\* The leading samples with MJD 0 removed ("Zap leading zeros").
RECURSIVE zap_leading_zeros(_, _)
zap_leading_zeros(m, c) ==
    IF Len(m) > 0 /\ m[1] = 0 THEN zap_leading_zeros(Tail(m), Tail(c))
    ELSE [time |-> m, clock |-> c]

Obscodes == {NoneStr, <<"B">>}
Formats == {"tempo", "tempo2", "tempo3"}
\* ClockFile._formats, filled by ClockFileMeta
Registered == {"tempo", "tempo2"}

InitRead ==
    /\ pc = "read"
    /\ format \in Formats
    /\ obscode \in Obscodes
    /\ bogus_last_correction \in BOOLEAN
    /\ lines = <<>> /\ seen_header = 0 /\ mjds = <<>> /\ clkcorrs = <<>>
    /\ comments = <<>> /\ leading_comment = NoneStr
    /\ r = None /\ raised = None
    /\ MergeIdle
    /\ EvalIdle

\* ClockFile.read: the format is looked up before any parser runs.
ReadDispatch ==
    /\ pc = "read"
    /\ format \in Registered
    /\ pc' = IF format = "tempo" THEN "tempo" ELSE "tempo2_header"
    /\ leading_comment' = IF format = "tempo" THEN NoneStr ELSE <<>>
    /\ UNCHANGED <<mergeVars, evalVars, optVars, lines, seen_header, mjds, clkcorrs,
                   comments, r, raised>>

ReadUnknownFormat ==
    /\ pc = "read"
    /\ format \notin Registered
    /\ raised' = "ValueError: format not defined"
    /\ pc' = "raised"
    /\ UNCHANGED <<mergeVars, evalVars, optVars, parseVars, r>>

\* The loop of TempoClockFile.__init__ takes line i next.
TempoTakes(i) ==
    /\ pc = "tempo"
    /\ Len(lines) < MaxLines
    /\ lines' = Append(lines, i)

Raise(e) ==
    /\ raised' = e
    /\ pc' = "raised"

TempoCommentLine ==
    \E i \in 1..Len(TempoLines) :
        /\ TempoTakes(i)
        /\ startswith(TempoLines[i], <<"#">>)
        /\ LET c == tempo_add_comment(comments, leading_comment, TempoLines[i])
           IN comments' = c.comments /\ leading_comment' = c.leading_comment
        /\ UNCHANGED <<pc, mergeVars, evalVars, optVars, seen_header, mjds, clkcorrs, r, raised>>

TempoHeaderLine ==
    \E i \in 1..Len(TempoLines) :
        /\ TempoTakes(i)
        /\ ~startswith(TempoLines[i], <<"#">>)
        /\ seen_header < 2
        /\ header_matches(TempoLines[i], seen_header)
        /\ seen_header' = seen_header + 1
        /\ UNCHANGED <<pc, mergeVars, evalVars, optVars, mjds, clkcorrs, comments,
                       leading_comment, r, raised>>

TempoHeaderMismatch ==
    \E i \in 1..Len(TempoLines) :
        /\ TempoTakes(i)
        /\ ~startswith(TempoLines[i], <<"#">>)
        /\ seen_header < 2
        /\ ~header_matches(TempoLines[i], seen_header)
        /\ Raise("ValueError: standard header")
        /\ UNCHANGED <<mergeVars, evalVars, optVars, seen_header, mjds, clkcorrs, comments,
                       leading_comment, r>>

TempoInclude ==
    \E i \in 1..Len(TempoLines) :
        /\ TempoTakes(i)
        /\ ~startswith(TempoLines[i], <<"#">>)
        /\ seen_header >= 2
        /\ startswith(TempoLines[i], <<"I","N","C","L","U","D","E">>)
        /\ Raise("NotImplementedError")
        /\ UNCHANGED <<mergeVars, evalVars, optVars, seen_header, mjds, clkcorrs, comments,
                       leading_comment, r>>

\* The line passed the comment, header and INCLUDE tests.
TempoDataLine(i) ==
    /\ TempoTakes(i)
    /\ ~startswith(TempoLines[i], <<"#">>)
    /\ seen_header >= 2
    /\ ~startswith(TempoLines[i], <<"I","N","C","L","U","D","E">>)

TempoSiteSkip ==
    \E i \in 1..Len(TempoLines) :
        /\ TempoDataLine(i)
        /\ site_differs(obscode, TempoLines[i])
        /\ UNCHANGED <<pc, mergeVars, evalVars, optVars, seen_header, mjds, clkcorrs, comments,
                       leading_comment, r, raised>>

TempoDemote ==
    \E i \in 1..Len(TempoLines) :
        /\ TempoDataLine(i)
        /\ ~site_differs(obscode, TempoLines[i])
        /\ demoted(TempoLines[i])
        /\ LET c == tempo_add_comment(comments, leading_comment, TempoLines[i])
           IN comments' = c.comments /\ leading_comment' = c.leading_comment
        /\ UNCHANGED <<pc, mergeVars, evalVars, optVars, seen_header, mjds, clkcorrs, r, raised>>

TempoSample ==
    \E i \in 1..Len(TempoLines) :
        /\ TempoDataLine(i)
        /\ ~site_differs(obscode, TempoLines[i])
        /\ ~demoted(TempoLines[i])
        /\ mjds' = Append(mjds, tempo_mjd(TempoLines[i])[1])
        /\ clkcorrs' = Append(clkcorrs, tempo_clkcorr(TempoLines[i]))
        /\ LET c == tempo_add_comment(Append(comments, NoneStr), leading_comment,
                                      py_from(TempoLines[i], 50))
           IN comments' = c.comments /\ leading_comment' = c.leading_comment
        /\ UNCHANGED <<pc, mergeVars, evalVars, optVars, seen_header, r, raised>>

\* After the loop (the file ended, or could not be opened, which leaves the
\* lists empty): with bogus_last_correction and a sample, mjd = mjd[:-1]
\* subscripts the loop's last mjd, a float or None, and raises TypeError.
tempo_returns(m, c, bogus) ==
    IF bogus /\ Len(m) > 0
    THEN [raised |-> "TypeError", time |-> <<>>, clock |-> <<>>, unit |-> "us"]
    ELSE LET zapped == zap_leading_zeros(m, c)
         IN [raised |-> None, time |-> zapped.time, clock |-> zapped.clock, unit |-> "us"]

TempoEnd ==
    /\ pc = "tempo"
    /\ LET out == tempo_returns(mjds, clkcorrs, bogus_last_correction)
       IN IF out.raised # None
          THEN Raise(out.raised) /\ UNCHANGED r
          ELSE r' = [time |-> out.time, clock |-> out.clock, unit |-> out.unit]
               /\ pc' = "parsed" /\ UNCHANGED raised
    /\ UNCHANGED <<mergeVars, evalVars, optVars, parseVars>>

(***************************************************************************)
(* Tempo2ClockFile.__init__                                                *)
(***************************************************************************)
\* The index of the first character at or after i that is no white space.
SkipSpace(s, i) == Least({Len(s) + 1} \cup {j \in i..Len(s) : ~IsSpace(s[j])})

\* hdrline_re.match(hdrline): "#", two words, white space after the second
hdrline_matches(l) ==
    /\ startswith(l, <<"#">>)
    /\ LET a == SkipSpace(l, 2)
           b == WordEnd(l, a)
           c == SkipSpace(l, b)
           d == WordEnd(l, c)
       IN a <= Len(l) /\ b <= Len(l) /\ c <= Len(l) /\ d <= Len(l)

FloatExponents == {"e", "E", "d", "D"}

\* clkcorr_re.match(line): the three groups, or None
clkcorr_match(l) ==
    LET a == SkipSpace(l, 1)
        b == FloatEnd(l, a, FloatExponents)
        c == IF b = 0 THEN 0 ELSE SkipSpace(l, b)
        d == IF c > b THEN FloatEnd(l, c, FloatExponents) ELSE 0
        e == Least({Len(l) + 1} \cup {j \in d..Len(l) : l[j] = "\n"})
    IN IF d # 0
       THEN Some([g1 |-> SubSeq(l, a, b - 1), g2 |-> SubSeq(l, c, d - 1),
                  g3 |-> SubSeq(l, d, e - 1)])
       ELSE Nothing

\* The line is taken as a comment: it starts with "#" or does not match.
tempo2_is_comment(l) == startswith(l, <<"#">>) \/ clkcorr_match(l) = Nothing

\* add_comment(s) of Tempo2ClockFile.__init__: the new comments and leading_comment
tempo2_add_comment(cs, lead, s) ==
    IF cs # <<>>
    THEN [comments |-> [cs EXCEPT ![Len(cs)] = @ \o <<"\n">> \o strip(s)],
          leading_comment |-> lead]
    ELSE [comments |-> cs, leading_comment |-> lead \o <<"\n">> \o strip(s)]

\* mjd[:-1]
drop_last(a) == SubSeq(a, 1, Len(a) - 1)

\* What Tempo2ClockFile.__init__ leaves in _time and _clock.
tempo2_returns(m, c, bogus) ==
    LET mm == IF bogus /\ Len(m) > 0 THEN drop_last(m) ELSE m
        cc == IF bogus /\ Len(m) > 0 THEN drop_last(c) ELSE c
        zapped == zap_leading_zeros(mm, cc)
    IN [time |-> zapped.time, clock |-> zapped.clock, unit |-> "s"]

\* f.readline() of an empty file is "", which the header pattern rejects.
Tempo2EmptyFile ==
    /\ pc = "tempo2_header"
    /\ Raise("ValueError: header line")
    /\ UNCHANGED <<mergeVars, evalVars, optVars, parseVars, r>>

\* open_or_use fails: FileNotFoundError or OSError, caught; empty arrays.
Tempo2NotFound ==
    /\ pc = "tempo2_header"
    /\ r' = [time |-> <<>>, clock |-> <<>>, unit |-> "s"]
    /\ pc' = "parsed"
    /\ UNCHANGED <<mergeVars, evalVars, optVars, parseVars, raised>>

Tempo2Header ==
    \E i \in 1..Len(Tempo2Lines) :
        /\ pc = "tempo2_header"
        /\ lines' = Append(lines, i)
        /\ hdrline_matches(Tempo2Lines[i])
        /\ pc' = "tempo2"
        /\ UNCHANGED <<mergeVars, evalVars, optVars, seen_header, mjds, clkcorrs, comments,
                       leading_comment, r, raised>>

Tempo2HeaderMismatch ==
    \E i \in 1..Len(Tempo2Lines) :
        /\ pc = "tempo2_header"
        /\ lines' = Append(lines, i)
        /\ ~hdrline_matches(Tempo2Lines[i])
        /\ Raise("ValueError: header line")
        /\ UNCHANGED <<mergeVars, evalVars, optVars, seen_header, mjds, clkcorrs, comments,
                       leading_comment, r>>

\* The loop of Tempo2ClockFile.__init__ takes line i next.
Tempo2Takes(i) ==
    /\ pc = "tempo2"
    /\ Len(lines) < MaxLines
    /\ lines' = Append(lines, i)

Tempo2CommentLine ==
    \E i \in 1..Len(Tempo2Lines) :
        /\ Tempo2Takes(i)
        /\ tempo2_is_comment(Tempo2Lines[i])
        /\ LET c == tempo2_add_comment(comments, leading_comment, Tempo2Lines[i])
           IN comments' = c.comments /\ leading_comment' = c.leading_comment
        /\ UNCHANGED <<pc, mergeVars, evalVars, optVars, seen_header, mjds, clkcorrs, r, raised>>

\* float() of a group the pattern accepted but Python does not read as a
\* number (a d or D exponent): ValueError, which the parser does not catch.
Tempo2BadFloat ==
    \E i \in 1..Len(Tempo2Lines) :
        /\ Tempo2Takes(i)
        /\ ~startswith(Tempo2Lines[i], <<"#">>)
        /\ \E m \in {clkcorr_match(Tempo2Lines[i])} :
              /\ m # Nothing
              /\ py_float(m[1].g1) = Nothing \/ py_float(m[1].g2) = Nothing
        /\ Raise("ValueError: float")
        /\ UNCHANGED <<mergeVars, evalVars, optVars, seen_header, mjds, clkcorrs, comments,
                       leading_comment, r>>

Tempo2Sample ==
    \E i \in 1..Len(Tempo2Lines) :
        /\ Tempo2Takes(i)
        /\ ~startswith(Tempo2Lines[i], <<"#">>)
        /\ \E m \in {clkcorr_match(Tempo2Lines[i])} :
              /\ m # Nothing
              /\ \E mjd \in {py_float(m[1].g1)}, clk \in {py_float(m[1].g2)} :
                    /\ mjd # Nothing /\ clk # Nothing
                    /\ mjds' = Append(mjds, mjd[1])
                    /\ clkcorrs' = Append(clkcorrs, clk[1])
              /\ LET c == tempo2_add_comment(comments, leading_comment, m[1].g3)
                 IN comments' = c.comments /\ leading_comment' = c.leading_comment
        /\ UNCHANGED <<pc, mergeVars, evalVars, optVars, seen_header, r, raised>>

Tempo2End ==
    /\ pc = "tempo2"
    /\ r' = tempo2_returns(mjds, clkcorrs, bogus_last_correction)
    /\ pc' = "parsed"
    /\ UNCHANGED <<mergeVars, evalVars, optVars, parseVars, raised>>

\* np.all(np.diff(r.time.mjd) > 0): equal adjacent times refused
in_order_strict(mjd) == \A i \in 1..(Len(mjd) - 1) : mjd[i + 1] - mjd[i] > 0

\* np.all(np.diff(r.time.mjd) >= 0)
in_order(mjd) == \A i \in 1..(Len(mjd) - 1) : mjd[i + 1] - mjd[i] >= 0

\* ClockFile.read after the parser returned r.
ReadCheck ==
    /\ pc = "parsed"
    /\ IF in_order(r.time)
       THEN pc' = "returned" /\ UNCHANGED raised
       ELSE Raise("ValueError: out of order")
    /\ UNCHANGED <<mergeVars, evalVars, optVars, parseVars, r>>

NextRead ==
    \/ ReadDispatch
    \/ ReadUnknownFormat
    \/ TempoCommentLine
    \/ TempoHeaderLine
    \/ TempoHeaderMismatch
    \/ TempoInclude
    \/ TempoSiteSkip
    \/ TempoDemote
    \/ TempoSample
    \/ TempoEnd
    \/ Tempo2EmptyFile
    \/ Tempo2NotFound
    \/ Tempo2Header
    \/ Tempo2HeaderMismatch
    \/ Tempo2CommentLine
    \/ Tempo2BadFloat
    \/ Tempo2Sample
    \/ Tempo2End
    \/ ReadCheck

SpecRead == InitRead /\ [][NextRead]_vars

(***************************************************************************)
(* Claims about merge and evaluate.                                        *)
(***************************************************************************)
\* The value of series c at time x by linear interpolation between the two
\* samples around x, clamped to the end samples; x is no repeated MJD of c.
Interpolated(c, x) ==
    LET n == Len(c.time)
    IN IF x <= c.time[1] THEN c.clock[1]
       ELSE IF x >= c.time[n] THEN c.clock[n]
       ELSE LET i == CHOOSE i \in 1..(n - 1) : c.time[i] <= x /\ x < c.time[i + 1]
            IN c.clock[i]
               + ((c.clock[i + 1] - c.clock[i]) * (x - c.time[i]))
                 \div (c.time[i + 1] - c.time[i])

RECURSIVE SumInterpolated(_, _, _)
SumInterpolated(clks, k, x) ==
    IF k = 0 THEN 0 ELSE Interpolated(clks[k], x) + SumInterpolated(clks, k - 1, x)

AllDiscontinuities(clks) == UNION {discontinuities(clks[k].time) : k \in 1..Len(clks)}

\* The 1-based positions of MJD m in the sequence a.
PositionsOf(a, m) == {i \in 1..Len(a) : a[i] = m}

\* C1 Merge additivity: at every sample of the merged series whose MJD is no
\* discontinuity MJD of any input (the breakpoint after a discontinuity
\* included), the merged correction is the sum of the inputs' interpolated
\* values at that MJD.
C1_MergeAdditivity ==
    (pc = "merged" /\ merged.raised = None) =>
        \A i \in 1..Len(merged.time) :
            merged.time[i] \notin AllDiscontinuities(clocks) =>
                merged.clock[i] = SumInterpolated(clocks, Len(clocks), merged.time[i])

\* C2 Merge discontinuity preservation: if input k has consecutive samples at
\* MJD T with values L then R, merge completes, its breakpoints hold T twice,
\* input k contributes L at the first copy and R at the second, and when no
\* other input is discontinuous at T the two merged values differ by R - L.
C2_MergeDiscontinuity ==
    pc = "merged" =>
        \A k \in 1..Len(clocks) : \A i \in 1..(Len(clocks[k].time) - 1) :
            z(clocks[k], i) =>
                LET T == clocks[k].time[i]
                    L == clocks[k].clock[i]
                    R == clocks[k].clock[i + 1]
                    at == PositionsOf(merged.mjds, T)
                    p == Min(at)
                IN /\ merged.raised = None
                   /\ at = {p, p + 1}
                   /\ merged.parts[k][p] = L
                   /\ merged.parts[k][p + 1] = R
                   /\ (/\ ~trim
                       /\ \A j \in 1..Len(clocks) :
                             j # k => T \notin discontinuities(clocks[j].time))
                      => merged.clock[p + 1] - merged.clock[p] = R - L

\* C3 Merge identity: merge([A], trim=False) has the MJDs of A and, sample
\* for sample, the corrections of A.
C3_MergeIdentity ==
    (pc = "merged" /\ Len(clocks) = 1 /\ trim = FALSE) =>
        /\ merged.raised = None
        /\ merged.time = clocks[1].time
        /\ merged.clock = clocks[1].clock

Starts(clks) == {clks[k].time[1] : k \in 1..Len(clks)}
Ends(clks) == {clks[k].time[Len(clks[k].time)] : k \in 1..Len(clks)}
InRange(lo, hi, a) == SelectSeq(a, LAMBDA m : lo <= m /\ m <= hi)

\* C4 Merge trimming: with trim the merged series keeps exactly the breakpoints
\* between the latest start and the earliest end of the inputs (both copies of
\* a discontinuity on a bound, nothing when the domains do not overlap);
\* without trim it keeps every breakpoint, from the earliest start to the
\* latest end.
C4_MergeTrimming ==
    pc = "merged" =>
        /\ merged.raised = None
        /\ trim => merged.time = InRange(Max(Starts(clocks)), Min(Ends(clocks)), merged.mjds)
        /\ ~trim => /\ merged.time = merged.mjds
                    /\ merged.time[1] = Min(Starts(clocks))
                    /\ merged.time[Len(merged.time)] = Max(Ends(clocks))

\* C5 Evaluate limits policy: with limits "warn" or "error", evaluate fails
\* exactly when limits is "error" and the series is empty or some query time
\* is outside [times[0], times[-1]]; a call that does not fail returns zero
\* for every query of an empty series, the first (last) correction before
\* (after) the range, the linear interpolation between samples, and at a
\* repeated MJD one of its two corrections; on an empty series the range test
\* is not reached.
C5_EvaluateLimits ==
    (pc = "evaluated" /\ limits \in {"warn", "error"}) =>
        LET n == Len(self.time)
            empty == n = 0
            outside == \E i \in 1..Len(t) : t[i] < self.time[1] \/ t[i] > self.time[n]
        IN /\ (ret.raised # None) <=> (limits = "error" /\ (empty \/ outside))
           /\ limits = "warn" => ret.raised = None
           /\ empty => ~ret.range_checked
           /\ ret.raised = None =>
                /\ Len(ret.value) = Len(t)
                /\ \A i \in 1..Len(t) :
                      IF empty THEN ret.value[i] = 0
                      ELSE IF t[i] < self.time[1] THEN ret.value[i] = self.clock[1]
                      ELSE IF t[i] > self.time[n] THEN ret.value[i] = self.clock[n]
                      ELSE IF t[i] \in discontinuities(self.time)
                      THEN ret.value[i] \in {self.clock[k] : k \in PositionsOf(self.time, t[i])}
                      ELSE ret.value[i] = Interpolated(self, t[i])

\* An evaluation with limits "warn" of a series with a gap, queried both
\* outside its range and strictly inside the gap where the correction changes.
C5_Witness ==
    /\ pc = "evaluated"
    /\ limits = "warn"
    /\ Len(self.time) >= 2
    /\ ret.raised = None
    /\ \E i \in 1..Len(t) : t[i] > self.time[Len(self.time)]
    /\ \E i \in 1..Len(t) : \E k \in 1..(Len(self.time) - 1) :
          /\ self.time[k] < t[i] /\ t[i] < self.time[k + 1]
          /\ self.clock[k] # self.clock[k + 1]
          /\ ret.value[i] # self.clock[k]

(***************************************************************************)
(* Claims about read and the two parsers.  What each line of the model is  *)
(* expected to be is written down here by hand, apart from the parser.     *)
(***************************************************************************)
Idx(l) == CHOOSE i \in 1..Len(TempoLines) : TempoLines[i] = l
CommentLines == {Idx(L_note)}
\* lines that agree with the first (second) line of the header template
Template1Lines == {Idx(L_H1), Idx(L_h1)}
Template2Lines == {Idx(L_H2)}
HeaderLike == {Idx(L_H1), Idx(L_H2), Idx(L_h1)}
\* data lines with a usable MJD and at least one usable correction field
WellFormedLines == {Idx(L_a), Idx(L_B), Idx(L_zero), Idx(L_onecorr)}
\* data lines without a usable MJD, or with no usable correction field
MalformedLines == HeaderLike \cup {Idx(L_junk), Idx(L_nocorr), Idx(L_early)}
OneFieldLines == {Idx(L_onecorr)}
\* the character at position 34 of each line, "" where the line is shorter
SiteOf ==
    [i \in 1..Len(TempoLines) |->
        CASE i \in {Idx(L_a), Idx(L_nocorr), Idx(L_onecorr)} -> "a"
          [] i \in {Idx(L_B), Idx(L_zero)} -> "B"
          [] i = Idx(L_early) -> "b"
          [] i = Idx(L_H1) -> "N"
          [] i = Idx(L_H2) -> "="
          [] i = Idx(L_h1) -> "e"
          [] OTHER -> ""]
\* MJD and correction (second field minus first, 818.8 taken off a first
\* field above 800), in thousandths
ExpectedSample ==
    [i \in WellFormedLines |->
        CASE i = Idx(L_a) -> [mjd |-> Milli(50000), clk |-> 1500]
          [] i = Idx(L_B) -> [mjd |-> Milli(49999), clk |-> 0 - 81200]
          [] i = Idx(L_zero) -> [mjd |-> 0, clk |-> 0]
          [] i = Idx(L_onecorr) -> [mjd |-> Milli(50002), clk |-> 2250]]

NonCommentLines(ls) == SelectSeq(ls, LAMBDA i : i \notin CommentLines)
\* the lines after the two header lines that are no comment lines
DataLines(ls) == SubSeq(NonCommentLines(ls), 3, Len(NonCommentLines(ls)))
SiteMatches(code, i) == SiteOf[i] # "" /\ char_lower(SiteOf[i]) = char_lower(code[1])
PassesFilter(code, i) == code = NoneStr \/ SiteMatches(code, i)
\* the data lines that give a sample under site filter code
Accepted(ls, code) ==
    SelectSeq(DataLines(ls), LAMBDA i : i \in WellFormedLines /\ PassesFilter(code, i))

\* The parser takes line i as a post-header data line in this step.
TempoDataLineTaken(i) ==
    /\ pc = "tempo"
    /\ lines' = Append(lines, i)
    /\ Len(NonCommentLines(lines)) >= 2
    /\ i \notin CommentLines \cup {Idx(L_include)}

EndsWith(str, suffix) ==
    /\ Len(str) >= Len(suffix)
    /\ SubSeq(str, Len(str) - Len(suffix) + 1, Len(str)) = suffix

\* In this step line i is added to the comment of the last sample, or to the
\* leading comment when there is no sample yet, and nothing else changes.
KeptAsComment(i) ==
    /\ mjds' = mjds /\ clkcorrs' = clkcorrs
    /\ IF mjds = <<>>
       THEN /\ comments' = comments
            /\ leading_comment' # leading_comment
            /\ EndsWith(leading_comment', rstrip(TempoLines[i]))
       ELSE /\ leading_comment' = leading_comment
            /\ Len(comments') = Len(comments)
            /\ \A k \in 1..(Len(comments) - 1) : comments'[k] = comments[k]
            /\ comments'[Len(comments)] # comments[Len(comments)]
            /\ EndsWith(comments'[Len(comments)], rstrip(TempoLines[i]))

\* In this step line i becomes a sample.
BecomesSample(i) ==
    /\ mjds' = Append(mjds, ExpectedSample[i].mjd)
    /\ clkcorrs' = Append(clkcorrs, ExpectedSample[i].clk)
    /\ Len(comments') = Len(comments) + 1
    /\ leading_comment' = leading_comment

LeadingZeros(m) == Greatest({k \in 0..Len(m) : \A j \in 1..k : m[j] = 0})
\* sequence a without the samples of the leading run of MJD 0 in m
Stripped(a, m) == SubSeq(a, LeadingZeros(m) + 1, Len(a))

\* C6 Read order check: a parsed series whose times are not non-decreasing
\* makes read fail with the out-of-order error, any other parsed series
\* (equal adjacent times included) is returned as it is, so every returned
\* series has non-decreasing times; an unregistered format fails with the
\* format error before a single line is read.
C6_ReadOrderCheck ==
    [][/\ pc = "parsed" =>
            IF NonDecreasing(r.time)
            THEN pc' = "returned" /\ r' = r /\ raised' = None
            ELSE pc' = "raised" /\ raised' = "ValueError: out of order"
       /\ pc' = "returned" => NonDecreasing(r'.time)
       /\ (pc = "read" /\ format \notin Registered) =>
            /\ pc' = "raised" /\ raised' = "ValueError: format not defined"
            /\ lines' = <<>> /\ mjds' = <<>> /\ clkcorrs' = <<>>
       /\ (pc = "read" /\ format \in Registered) => pc' \in {"tempo", "tempo2_header"}
      ]_vars

\* read refused a TEMPO file, read under a site filter, whose samples are out
\* of order.
C6_Witness ==
    /\ raised = "ValueError: out of order"
    /\ format = "tempo"
    /\ obscode # NoneStr
    /\ Len(r.time) >= 2

\* C7 TEMPO malformed-line recovery: whenever the parser takes a post-header
\* data line whose MJD is unusable or whose correction fields are both
\* unusable, with or without a site filter, the line is added to the comment
\* of the previous sample (to the leading comment before the first sample)
\* and parsing continues; a line with exactly one unusable correction field
\* becomes a sample with that field taken as 0.
C7_MalformedLineRecovery ==
    [][\A i \in 1..Len(TempoLines) :
          TempoDataLineTaken(i) =>
            /\ i \in MalformedLines => KeptAsComment(i) /\ pc' = "tempo"
            /\ (i \in OneFieldLines /\ PassesFilter(obscode, i)) =>
                    BecomesSample(i) /\ pc' = "tempo"
      ]_vars

C9_HeaderCheck ==
    [][/\ \A i \in 1..Len(TempoLines) :
            (pc = "tempo" /\ lines' = Append(lines, i) /\ i \notin CommentLines) =>
                LET k == Len(NonCommentLines(lines))
                    template == IF k = 0 THEN Template1Lines ELSE Template2Lines
                IN /\ k < 2 =>
                        IF i \in template
                        THEN /\ pc' = "tempo"
                             /\ UNCHANGED <<mjds, clkcorrs, comments, leading_comment>>
                        ELSE pc' = "raised" /\ raised' = "ValueError: standard header"
                   /\ k >= 2 =>
                        /\ raised' # "ValueError: standard header"
                        /\ i \in HeaderLike =>
                              /\ pc' = "tempo"
                              /\ obscode = NoneStr => KeptAsComment(i)
       /\ (format = "tempo" /\ pc' = "parsed" /\ Len(lines') >= 1) =>
            Len(NonCommentLines(lines')) >= 2
      ]_vars

\* C10 Leading-zero stripping: the series a parser returns is its list of
\* accepted samples, in the TEMPO2 parser's discard-last mode less the last
\* one, without the longest leading run of samples with MJD 0: times and
\* corrections keep their order and pairing, a later MJD 0 stays, and samples
\* that all have MJD 0 leave an empty series.
C10_LeadingZeroStripping ==
    pc = "parsed" =>
        LET discard == format = "tempo2" /\ bogus_last_correction /\ Len(mjds) > 0
            n == IF discard THEN Len(mjds) - 1 ELSE Len(mjds)
            time == SubSeq(mjds, 1, n)
            clock == SubSeq(clkcorrs, 1, n)
        IN /\ r.time = Stripped(time, time)
           /\ r.clock = Stripped(clock, time)
           /\ Len(r.time) = Len(r.clock)

\* A parser returned from a file whose first two samples have MJD 0 and whose
\* third has not: the series starts at the third.
C10_Witness ==
    /\ pc = "parsed"
    /\ ~bogus_last_correction
    /\ Len(mjds) >= 3
    /\ mjds[1] = 0 /\ mjds[2] = 0 /\ mjds[3] # 0
    /\ Len(r.time) = Len(mjds) - 2
    /\ r.time[1] = mjds[3] /\ r.clock[1] = clkcorrs[3]

(***************************************************************************)
(* Claims about the shape of what merge and the parsers produce.           *)
(***************************************************************************)
\* the MJDs found at two consecutive samples of some input
RepeatedInSomeInput(clks) ==
    {T \in 1..MaxT : \E k \in 1..Len(clks) : \E i \in 1..(Len(clks[k].time) - 1) :
                        clks[k].time[i] = T /\ clks[k].time[i + 1] = T}
\* the MJDs found in some input
FoundInSomeInput(clks) ==
    {T \in 1..MaxT : \E k \in 1..Len(clks) : \E i \in 1..Len(clks[k].time) :
                        clks[k].time[i] = T}

\* C11 Merge breakpoint structure: the breakpoints merge builds before it
\* trims are non-decreasing and hold every MJD of the inputs twice when two
\* consecutive samples of some input share it, once otherwise, and no other
\* MJD; every series merge returns, trimmed or not, has non-decreasing times,
\* no time more than twice and as many corrections as times.
C11_MergeBreakpoints ==
    pc = "merged" =>
        /\ NonDecreasing(merged.mjds)
        /\ \A T \in 0..(MaxT + 1) :
              Cardinality(PositionsOf(merged.mjds, T)) =
                  IF T \in RepeatedInSomeInput(clocks) THEN 2
                  ELSE IF T \in FoundInSomeInput(clocks) THEN 1
                  ELSE 0
        /\ merged.raised = None =>
              /\ NonDecreasing(merged.time)
              /\ AtMostTwice(merged.time)
              /\ Len(merged.clock) = Len(merged.time)
              /\ ~trim => merged.time = merged.mjds

\* merge returned a series for two inputs, one of which holds an MJD at three
\* consecutive samples; the merged series holds that MJD twice.
C11_Witness ==
    /\ pc = "merged"
    /\ merged.raised = None
    /\ Len(clocks) = 2
    /\ \E k \in 1..Len(clocks) : \E i \in 1..(Len(clocks[k].time) - 2) :
          /\ clocks[k].time[i] = clocks[k].time[i + 2]
          /\ Cardinality(PositionsOf(merged.time, clocks[k].time[i])) = 2

\* the text after column 50 of each TEMPO sample line, without trailing blanks
TempoTrailingText ==
    [i \in WellFormedLines |-> IF i = Idx(L_a) THEN <<"o", "k">> ELSE <<>>]
Idx2(l) == CHOOSE i \in 1..Len(Tempo2Lines) : Tempo2Lines[i] = l
\* the TEMPO2 lines that give a sample, and the text after their two numbers
Tempo2SampleLines == {Idx2(M_a), Idx2(M_b), Idx2(M_zero)}
Tempo2TrailingText ==
    [i \in Tempo2SampleLines |-> IF i = Idx2(M_b) THEN <<"o", "l", "d">> ELSE <<>>]
\* the lines of the file read that gave the parser's samples, in order
SampleLines ==
    IF format = "tempo" THEN Accepted(lines, obscode)
    ELSE IF lines = <<>> THEN <<>>
    ELSE SelectSeq(Tail(lines), LAMBDA i : i \in Tempo2SampleLines)
TrailingText(i) == IF format = "tempo" THEN TempoTrailingText[i] ELSE Tempo2TrailingText[i]
\* the '#' lines of the file read that come before its first sample line
LeadingCommentLines ==
    LET first == Least({Len(lines) + 1} \cup
                       {j \in 1..Len(lines) :
                            IF format = "tempo"
                            THEN /\ Len(NonCommentLines(SubSeq(lines, 1, j))) > 2
                                 /\ lines[j] \in WellFormedLines
                                 /\ PassesFilter(obscode, lines[j])
                            ELSE j > 1 /\ lines[j] \in Tempo2SampleLines})
    IN {j \in 1..(first - 1) :
            IF format = "tempo" THEN lines[j] \in CommentLines
            ELSE j > 1 /\ startswith(Tempo2Lines[lines[j]], <<"#">>)}
LineText(j) == IF format = "tempo" THEN TempoLines[lines[j]] ELSE Tempo2Lines[lines[j]]
Contains(str, part) ==
    \E a \in 0..(Len(str) - Len(part)) : SubSeq(str, a + 1, a + Len(part)) = part

\* C12 Comment alignment: when a parser has returned, comments has one slot
\* for each sample of the returned series (after the leading samples with
\* MJD 0 and, for TEMPO2 in discard-last mode, the last sample are removed),
\* slot i starts with the trailing text of the line that gave sample i, and
\* the comment lines before the first sample are in leading_comment.
C12_CommentAlignment ==
    pc = "parsed" =>
        LET zeros == Len(mjds) - Len(r.time)
                     - (IF format = "tempo2" /\ bogus_last_correction /\ Len(mjds) > 0
                        THEN 1 ELSE 0)
        IN /\ Len(comments) = Len(r.time)
           /\ \A i \in 1..Len(r.time) :
                 comments[i] # NoneStr
                 /\ startswith(comments[i], TrailingText(SampleLines[zeros + i]))
           /\ \A j \in LeadingCommentLines :
                 Contains(leading_comment, strip(LineText(j)))

====
